---- MODULE Spec2Model ----
(***************************************************************************)
(* Uptime-monitor worker: the BullMQ job handler of src/src/index.ts, the  *)
(* tables of src/src/db/schema.ts it reads and writes, and the call it     *)
(* makes to NotificationService.notifyUser (src/src/notification.ts).      *)
(***************************************************************************)
EXTENDS Integers, Sequences, FiniteSets, Bags, TLC

(* ---------------------------- bounds ----------------------------------- *)
MaxInFlight == 2    \* handler runs in flight at once (the worker allows Concurrency)
MaxRuns == 3        \* handler runs in all (first runs and retries)
MaxClock == 1       \* wall-clock readings 0..MaxClock
MaxChannels == 2    \* rows of the notification_channel table

(* ------------------------ program constants ---------------------------- *)
ExpectedStatus == 200   \* monitor.expectedStatus default
Concurrency == 10       \* Worker option concurrency

Null == -1              \* SQL NULL / JS undefined for a timestamp or a number
Absent == "<undefined>" \* JS undefined for a string

Jobs == 1..MaxInFlight   \* the worker's slots, each running one job at a time

(* The monitor table: the rows that exist.  "m0" is a monitor id that a    *)
(* job may carry although no row has it (deleted after the enqueue).       *)
MonitorRows ==
  { [id |-> "m1", userId |-> "u1", expectedStatus |-> ExpectedStatus] }
MonitorIds == { r.id : r \in MonitorRows }
JobMonitorIds == MonitorIds \cup {"m0"}
MonitorStatuses == {"up", "down", "paused", "unknown"}

(* What axios.request can do: answer with a status, or throw.              *)
NetOutcomes ==
  { [kind |-> "response", status |-> 200,  code |-> "",             message |-> ""],
    [kind |-> "response", status |-> 500,  code |-> "",             message |-> ""],
    [kind |-> "axios",    status |-> Null, code |-> "ECONNABORTED", message |-> "timeout of 10000ms exceeded"],
    [kind |-> "axios",    status |-> Null, code |-> "ETIMEDOUT",    message |-> "connect ETIMEDOUT"],
    [kind |-> "axios",    status |-> Null, code |-> "ECONNREFUSED", message |-> "connect ECONNREFUSED"],
    [kind |-> "axios",    status |-> Null, code |-> "ENOTFOUND",    message |-> "getaddrinfo ENOTFOUND"],
    [kind |-> "axios",    status |-> 502,  code |-> "ERR_BAD_RESPONSE", message |-> "Bad Gateway"],
    [kind |-> "axios",    status |-> Null, code |-> "ERR_NETWORK",  message |-> "socket hang up"],
    [kind |-> "axios",    status |-> Null, code |-> "ERR_NETWORK",  message |-> ""],
    [kind |-> "error",    status |-> Null, code |-> "",             message |-> "Invalid URL"],
    [kind |-> "error",    status |-> Null, code |-> "",             message |-> ""],
    [kind |-> "thrown",   status |-> Null, code |-> "",             message |-> ""] }

(* The outcomes a check job's probe draws from: one of each class that the *)
(* handler tells apart (up; down with a message; down without one).        *)
JobNetOutcomes ==
  { o \in NetOutcomes :
      \/ o.kind = "response"
      \/ o.kind = "error" /\ o.message = "" }

(* ------------------------- performHealthCheck -------------------------- *)
\* error.response.statusText
StatusText(o) == o.message

\* Mutant of performHealthCheck: any response counts as up.
performHealthCheck_AnyResponseUp(mon, o, responseMs) ==
  [ isUp |-> (o.kind = "response"), responseMs |-> responseMs,
    statusCode |-> o.status, errorMessage |-> Absent,
    errorType |-> IF o.kind = "response" THEN "unknown"
                  ELSE IF o.status # Null THEN "status" ELSE "unknown" ]

\* Mutant of performHealthCheck: the error codes are not looked at.
performHealthCheck_CodesIgnored(mon, o, responseMs) ==
  [ isUp |-> (o.kind = "response" /\ o.status = mon.expectedStatus),
    responseMs |-> responseMs, statusCode |-> o.status,
    errorMessage |-> IF o.message # "" THEN o.message ELSE Absent,
    errorType |-> IF o.kind = "response" /\ o.status = mon.expectedStatus
                  THEN "unknown"
                  ELSE IF o.status # Null THEN "status" ELSE "unknown" ]

performHealthCheck(mon, o, responseMs) ==
  IF o.kind = "response"
  THEN [ isUp |-> (o.status = mon.expectedStatus),
         responseMs |-> responseMs,
         statusCode |-> o.status,
         errorMessage |-> IF o.status = mon.expectedStatus THEN Absent
                          ELSE "Expected " \o ToString(mon.expectedStatus)
                               \o ", got " \o ToString(o.status),
         errorType |-> IF o.status = mon.expectedStatus THEN "unknown" ELSE "status" ]
  ELSE IF o.kind = "axios"
  THEN IF o.code \in {"ECONNABORTED", "ETIMEDOUT"}
       THEN [ isUp |-> FALSE, responseMs |-> responseMs, statusCode |-> Null,
              errorMessage |-> "Request timeout after " \o ToString(responseMs) \o "ms",
              errorType |-> "timeout" ]
       ELSE IF o.code \in {"ECONNREFUSED", "ENOTFOUND"}
       THEN [ isUp |-> FALSE, responseMs |-> responseMs, statusCode |-> Null,
              errorMessage |-> "Network error: " \o o.code,
              errorType |-> "network" ]
       ELSE IF o.status # Null /\ o.status # 0
       THEN [ isUp |-> FALSE, responseMs |-> responseMs, statusCode |-> o.status,
              errorMessage |-> "HTTP " \o ToString(o.status) \o ": " \o StatusText(o),
              errorType |-> "status" ]
       ELSE [ isUp |-> FALSE, responseMs |-> responseMs, statusCode |-> Null,
              errorMessage |-> IF o.message # "" THEN o.message ELSE "Unknown axios error",
              errorType |-> "unknown" ]
  ELSE [ isUp |-> FALSE, responseMs |-> responseMs, statusCode |-> Null,
         errorMessage |-> IF o.kind = "error" THEN o.message ELSE "Unknown error occurred",
         errorType |-> "unknown" ]

(* --------------------------- the handler's helpers --------------------- *)
\* results.isUp ? "up" : "down"
CheckStatus(results) == IF results.isUp THEN "up" ELSE "down"

\* results.errorMessage || `HTTP ${results.statusCode || 'Unknown'}`
IncidentErrorMessage(results) ==
  IF results.errorMessage \notin {Absent, ""}
  THEN results.errorMessage
  ELSE "HTTP " \o (IF results.statusCode \notin {Null, 0}
                   THEN ToString(results.statusCode) ELSE "Unknown")

\* Mutants of NewIncidentValues: the row is inserted already ended; the row
\* is inserted without its duration.
NewIncidentValues_EndAtSet(id, mon, monitorId, now, results) ==
  [ id |-> id, userId |-> mon.userId, monitorId |-> monitorId,
    status |-> "open", startAt |-> now, endAt |-> now, durationMs |-> 0,
    errorMessage |-> IncidentErrorMessage(results) ]

NewIncidentValues_NoDuration(id, mon, monitorId, now, results) ==
  [ id |-> id, userId |-> mon.userId, monitorId |-> monitorId,
    status |-> "open", startAt |-> now, endAt |-> Null, durationMs |-> Null,
    errorMessage |-> IncidentErrorMessage(results) ]

\* db.insert(incident).values({...}).returning()
NewIncidentValues(id, mon, monitorId, now, results) ==
  [ id |-> id, userId |-> mon.userId, monitorId |-> monitorId,
    status |-> "open", startAt |-> now, endAt |-> Null, durationMs |-> 0,
    errorMessage |-> IncidentErrorMessage(results) ]

\* Mutant of OngoingUpdate: the subtraction the wrong way round.
OngoingUpdate_Reversed(row, ongoing, now, results) ==
  [ row EXCEPT !.durationMs = ongoing.startAt - now,
               !.errorMessage = IncidentErrorMessage(results) ]

\* db.update(incident).set({durationMs, errorMessage})
OngoingUpdate(row, ongoing, now, results) ==
  [ row EXCEPT !.durationMs = now - ongoing.startAt,
               !.errorMessage = IncidentErrorMessage(results) ]

\* Mutant of ResolveUpdate: the duration is taken from the stored duration
\* plus nothing, i.e. left as the last update wrote it.
ResolveUpdate_StaleDuration(row, ongoing, endTime) ==
  [ row EXCEPT !.endAt = endTime ]

\* Mutant of ResolveUpdate: only the duration is written, endAt stays null.
ResolveUpdate_KeepsOpen(row, ongoing, endTime) ==
  [ row EXCEPT !.durationMs = endTime - ongoing.startAt ]

\* db.update(incident).set({endAt: endTime, durationMs: totalDuration})
ResolveUpdate(row, ongoing, endTime) ==
  [ row EXCEPT !.endAt = endTime,
               !.durationMs = endTime - ongoing.startAt ]

\* Mutant of generateNotificationMessages: the flags are ignored and the
\* "still down" message is built.
generateNotificationMessages_Ongoing(isNewIncident, isResolved) ==
  [ title |-> "Service Still Down", priority |-> "high" ]

\* generateNotificationMessages(monitor, results, isNewIncident, isResolved)
generateNotificationMessages(isNewIncident, isResolved) ==
  IF isResolved THEN [ title |-> "Service Restored", priority |-> "medium" ]
  ELSE IF isNewIncident THEN [ title |-> "Service Down", priority |-> "critical" ]
  ELSE [ title |-> "Service Still Down", priority |-> "high" ]

\* Mutant of AfterNotify: no try/catch around the call, a raise escapes.
AfterNotify_Propagates(outcome) ==
  IF outcome = "raised" THEN "catch" ELSE "return"

\* Mutant of AfterCatch: the error is logged and swallowed.
AfterCatch_Swallow(step) == "completed"

\* try { await NotificationService.notifyUser(...) } catch (notificationError)
\* { console.error(...) }: whatever the call did, the handler goes on.
AfterNotify(outcome) == "return"

\* catch (error) { console.error(...); throw error }
AfterCatch(step) == "failed"

\* What NotificationService.notifyUser can do for its caller: return the
\* per-channel results (all delivered, or some channel failed), or raise.
NotifyOutcomes == {"delivered", "channelFailed", "raised"}

(* ------------------ NotificationService: the senders -------------------- *)
\* pgEnum("channel_type", [...])
ChannelTypes == {"email", "slack", "discord", "webhook"}
\* the users whose rows the notification_channel table holds
Users == {"u1", "u2"}

\* a send whose Promise<void> fulfilled
Resolved == "<resolved>"

\* What a channel's own transport does with the message:
\* transporter.sendMail resolves or rejects; axios.post gets a response with
\* a status, or none within the timeout.
MailOutcomes ==
  { [mail |-> m, status |-> Null] : m \in {"sent", "rejected"} }
HttpOutcomes ==
  { [mail |-> "none", status |-> st] : st \in {200, 404, 503, Null} }
TransportOutcomes(type) == IF type = "email" THEN MailOutcomes ELSE HttpOutcomes

\* private static async sendEmail(to, title, message, priority)
sendEmail(env, o) ==
  IF ~env.transporter THEN "Email transporter not available"
  ELSE IF ~env.smtpFrom THEN "SMTP_FROM environment variable not set"
  ELSE IF o.mail = "rejected" THEN "sendMail rejected"
  ELSE Resolved

\* Mutant of sendWebhook: axios' default validateStatus, only 2xx resolves.
sendWebhook_Rejects4xx(o) ==
  IF o.status = Null THEN "timeout of 10000ms exceeded"
  ELSE IF o.status >= 200 /\ o.status < 300 THEN Resolved
  ELSE "Request failed with status code " \o ToString(o.status)

\* private static async sendWebhook(url, title, message, type, priority):
\* axios.post(..., {timeout, validateStatus: (status) => status < 500})
sendWebhook(o) ==
  IF o.status = Null THEN "timeout of 10000ms exceeded"
  ELSE IF o.status < 500 THEN Resolved
  ELSE "Request failed with status code " \o ToString(o.status)

\* Mutant of Deliver: every channel goes through the mail transport's checks.
Deliver_AllNeedMail(channel, env, o) ==
  IF ~env.transporter THEN "Email transporter not available"
  ELSE IF channel.type = "email" THEN sendEmail(env, o)
  ELSE sendWebhook(o)

\* switch (channel.type) { case "email": ... case "slack": ... default: throw }
Deliver(channel, env, o) ==
  IF channel.type = "email" THEN sendEmail(env, o)
  ELSE IF channel.type \in {"slack", "discord", "webhook"} THEN sendWebhook(o)
  ELSE "Unsupported channel type: " \o channel.type

\* return {channelId, type, success: true}  /  catch (error) { return
\* {channelId, type, success: false, error: error.message} }
ChannelResult(channel, sent) ==
  IF sent = Resolved
  THEN [ channelId |-> channel.id, type |-> channel.type,
         success |-> TRUE, error |-> Absent ]
  ELSE [ channelId |-> channel.id, type |-> channel.type,
         success |-> FALSE, error |-> sent ]

\* settlementResults.forEach((result, index) => fulfilled ? value : {...})
Settlement(result, channel) ==
  IF result.status = "fulfilled" THEN result.value
  ELSE [ channelId |-> channel.id, type |-> channel.type,
         success |-> FALSE, error |-> "Promise rejected" ]

\* Mutant of JoinResults: only the deliveries that succeeded are reported.
JoinResults_OnlySuccessful(ps, chs) ==
  SelectSeq([ i \in 1..Len(chs) |-> Settlement(ps[i][1], chs[i]) ],
            LAMBDA r : r.success)

\* const settlementResults = await Promise.allSettled(promises); results.push
JoinResults(ps, chs) ==
  [ i \in 1..Len(chs) |-> Settlement(ps[i][1], chs[i]) ]

\* Mutant of notifyUserReturn: Promise.all semantics, one failed delivery
\* rejects the whole call.
notifyUserReturn_FailFast(ps, chs) ==
  IF \E i \in 1..Len(chs) : ~ps[i][1].value.success
  THEN [ kind |-> "raise", value |-> << >>, error |-> "delivery failed" ]
  ELSE [ kind |-> "value", value |-> JoinResults(ps, chs), error |-> Absent ]

\* return results
notifyUserReturn(ps, chs) ==
  [ kind |-> "value", value |-> JoinResults(ps, chs), error |-> Absent ]

\* the arguments notifyUser is called with (priority and metadata only
\* shape the rendered text)
Payloads ==
  [ userId : {"u1", ""}, title : {"Service Down", ""}, message : {"text", ""} ]

NoReturn == [ kind |-> "none", value |-> << >>, error |-> Absent ]

(* ------------------------------- state --------------------------------- *)
VARIABLES
  clock,          \* Date.now()
  monitorStatus,  \* monitor.status of every monitor row
  checkResults,   \* the check_result table: a bag of rows (ids left out)
  incidents,      \* the incident table, in insertion order (id = position)
  notifications,  \* the payloads NotificationService.notifyUser was called with
  pc,             \* where each job's handler run stands
  jobData,        \* job.data.monitorId
  runs,           \* handler runs started so far
  local           \* the handler run's local variables

\* One call of NotificationService.notifyUser, looked at from the inside.
VARIABLES
  mailEnv,        \* the mail transport: transporter created, SMTP_FROM set
  channelTable,   \* the notification_channel table
  dpc,            \* where the call stands
  dpayload,       \* the call's argument
  channels,       \* const channels = await db.select()...
  attempts,       \* what each channel's own transport did (<< >>: not yet)
  promises,       \* the promises of channels.map(...) (<< >>: pending)
  dreturn         \* what the call gave its caller

\* One call of performHealthCheck, looked at on its own.
VARIABLES
  hpc,            \* where the call stands
  hmonitor,       \* its argument (MonitorCheck)
  hstart,         \* const start = Date.now()
  hnet,           \* what axios.request did
  hresult         \* what the call gave its caller

wvars == << clock, monitorStatus, checkResults, incidents, notifications,
            pc, jobData, runs, local >>
dvars == << mailEnv, channelTable, dpc, dpayload, channels, attempts,
            promises, dreturn >>
hvars == << hpc, hmonitor, hstart, hnet, hresult >>
vars == << wvars, dvars, hvars >>

Blank ==
  [ existingMonitor |-> << >>, start |-> Null, results |-> << >>,
    tRead |-> Null, ongoingIncident |-> << >>, newIncident |-> << >>,
    totalDuration |-> Null, notifyOutcome |-> "none", failedAt |-> "none" ]

Ended == {"completed", "failed"}
InFlight(j) == pc[j] \notin ({"idle"} \cup Ended)
InFlightFor(m) == { j \in Jobs : InFlight(j) /\ jobData[j] = m }

\* and(eq(incident.monitorId, monitorId), isNull(incident.endAt))
SelectOpenIncidents(tbl, monitorId) ==
  { i \in 1..Len(tbl) : tbl[i].monitorId = monitorId /\ tbl[i].endAt = Null }

\* no call of notifyUser is being looked at
DispatcherIdle ==
  /\ mailEnv = [transporter |-> TRUE, smtpFrom |-> TRUE]
  /\ channelTable = << >>
  /\ dpc = "idle"
  /\ dpayload = << >>
  /\ channels = << >>
  /\ attempts = << >>
  /\ promises = << >>
  /\ dreturn = NoReturn

\* no call of performHealthCheck is being looked at on its own
ProberIdle ==
  /\ hpc = "idle"
  /\ hmonitor = << >>
  /\ hstart = Null
  /\ hnet = << >>
  /\ hresult = NoReturn

Init ==
  /\ clock = 0
  /\ monitorStatus \in [MonitorIds -> {"unknown", "paused"}]
  /\ checkResults = EmptyBag
  /\ incidents = << >>
  /\ notifications = << >>
  /\ pc = [j \in Jobs |-> "idle"]
  /\ jobData = [j \in Jobs |-> ""]
  /\ runs = 0
  /\ local = [j \in Jobs |-> Blank]
  /\ DispatcherIdle
  /\ ProberIdle

(* ------------------------------ the clock ------------------------------ *)
Tick ==
  /\ clock < MaxClock
  /\ clock' = clock + 1
  /\ UNCHANGED << monitorStatus, checkResults, incidents, notifications,
                  pc, jobData, runs, local >>

(* ------------------------- the queue (BullMQ) -------------------------- *)
\* The worker takes a waiting job into a free slot and calls the handler.
StartOn(j, m) ==
  /\ pc[j] \in {"idle"} \cup Ended
  /\ runs < MaxRuns
  /\ Cardinality({ k \in Jobs : InFlight(k) }) < Concurrency
  /\ pc' = [pc EXCEPT ![j] = "loadMonitor"]
  /\ jobData' = [jobData EXCEPT ![j] = m]
  /\ runs' = runs + 1
  /\ local' = [local EXCEPT ![j] = Blank]
  /\ UNCHANGED << clock, monitorStatus, checkResults, incidents, notifications >>

\* A failed job is run again: the handler starts over with the same job.data.
RetryJob(j) ==
  /\ pc[j] = "failed"
  /\ runs < MaxRuns
  /\ Cardinality({ k \in Jobs : InFlight(k) }) < Concurrency
  /\ pc' = [pc EXCEPT ![j] = "loadMonitor"]
  /\ runs' = runs + 1
  /\ local' = [local EXCEPT ![j] = Blank]
  /\ UNCHANGED << clock, monitorStatus, checkResults, incidents, notifications,
                  jobData >>

Start(j) == \E m \in JobMonitorIds : StartOn(j, m)
Retry(j) == RetryJob(j)

\* The same, under a scheduler that never overlaps two checks of one monitor.
SerialStart(j) ==
  \E m \in JobMonitorIds : InFlightFor(m) = {} /\ StartOn(j, m)
SerialRetry(j) == InFlightFor(jobData[j]) = {} /\ RetryJob(j)

(* ------------------------------ the handler ---------------------------- *)
\* Mutant of Throw: the failing run's status write is undone.
Throw_RollsBackStatus(j, step) ==
  /\ pc' = [pc EXCEPT ![j] = "catch"]
  /\ local' = [local EXCEPT ![j].failedAt = step]
  /\ monitorStatus' = [ m \in MonitorIds |->
                          IF m = jobData[j] THEN "unknown" ELSE monitorStatus[m] ]
  /\ UNCHANGED << clock, checkResults, incidents, notifications,
                  jobData, runs >>

\* A persistence call rejects: control passes to catch (error) { ... }.
Throw(j, step) ==
  /\ pc' = [pc EXCEPT ![j] = "catch"]
  /\ local' = [local EXCEPT ![j].failedAt = step]
  /\ UNCHANGED << clock, monitorStatus, checkResults, incidents, notifications,
                  jobData, runs >>

\* Mutant of LoadMonitor: the 'not found' test is missing, the run goes on
\* to probe with whatever row it is handed.
LoadMonitor_ProbesMissing(j) ==
  /\ pc[j] = "loadMonitor"
  /\ \/ Throw(j, "loadMonitor")
     \/ \E mon \in MonitorRows :
          /\ local' = [local EXCEPT ![j].existingMonitor = << mon >>,
                                    ![j].start = clock]
          /\ pc' = [pc EXCEPT ![j] = "probe"]
          /\ UNCHANGED << clock, monitorStatus, checkResults, incidents,
                          notifications, jobData, runs >>

\* const [existingMonitor] = await db.select().from(monitor).where(...)
LoadMonitor(j) ==
  /\ pc[j] = "loadMonitor"
  /\ \/ Throw(j, "loadMonitor")
     \/ /\ jobData[j] \notin MonitorIds
        /\ pc' = [pc EXCEPT ![j] = "completed"]
        /\ local' = [local EXCEPT ![j] = Blank]
        /\ UNCHANGED << clock, monitorStatus, checkResults, incidents,
                        notifications, jobData, runs >>
     \/ \E mon \in MonitorRows :
          /\ mon.id = jobData[j]
          /\ local' = [local EXCEPT ![j].existingMonitor = << mon >>,
                                    ![j].start = clock]
          /\ pc' = [pc EXCEPT ![j] = "probe"]
          /\ UNCHANGED << clock, monitorStatus, checkResults, incidents,
                          notifications, jobData, runs >>

\* const results = await performHealthCheck({...})
Probe(j) ==
  /\ pc[j] = "probe"
  /\ \E o \in JobNetOutcomes :
       local' = [local EXCEPT ![j].results =
                   << performHealthCheck(local[j].existingMonitor[1], o,
                                         clock - local[j].start) >>,
                                 ![j].start = Null]
  /\ pc' = [pc EXCEPT ![j] = "setStatus"]
  /\ UNCHANGED << clock, monitorStatus, checkResults, incidents, notifications,
                  jobData, runs >>

\* Mutant of SetMonitorStatus: a paused monitor keeps its status.
SetMonitorStatus_KeepsPaused(j) ==
  /\ pc[j] = "setStatus"
  /\ \/ Throw(j, "setStatus")
     \/ /\ monitorStatus' =
             IF monitorStatus[jobData[j]] = "paused" THEN monitorStatus
             ELSE [monitorStatus EXCEPT ![jobData[j]] =
                     CheckStatus(local[j].results[1])]
        /\ pc' = [pc EXCEPT ![j] = "insertCheckResult"]
        /\ UNCHANGED << clock, checkResults, incidents, notifications,
                        jobData, runs, local >>

\* await db.update(monitor).set({status}).where(eq(monitor.id, monitorId))
SetMonitorStatus(j) ==
  /\ pc[j] = "setStatus"
  /\ \/ Throw(j, "setStatus")
     \/ /\ monitorStatus' = [monitorStatus EXCEPT ![jobData[j]] =
                                CheckStatus(local[j].results[1])]
        /\ pc' = [pc EXCEPT ![j] = "insertCheckResult"]
        /\ UNCHANGED << clock, checkResults, incidents, notifications,
                        jobData, runs, local >>

\* await db.insert(checkResult).values({monitorId, status, responseMs, createdAt})
\* The values carry no userId, which check_result.user_id requires (notNull,
\* no default): a database built from schema.ts rejects the insert, one
\* whose column allows NULL takes it.  Both outcomes are kept.
InsertCheckResult(j) ==
  /\ pc[j] = "insertCheckResult"
  /\ \/ Throw(j, "insertCheckResult")
     \/ /\ checkResults' = checkResults (+) SetToBag({
                              [ monitorId |-> jobData[j],
                                status |-> CheckStatus(local[j].results[1]),
                                responseMs |-> local[j].results[1].responseMs ] })
        /\ pc' = [pc EXCEPT ![j] = "findIncident"]
        /\ UNCHANGED << clock, monitorStatus, incidents, notifications,
                        jobData, runs, local >>

\* Mutant of AfterFind: an up result with no open incident opens one.
AfterFind_UpCreates(results, ongoing) ==
  IF ongoing # << >>
  THEN IF ~results.isUp THEN "updateIncident" ELSE "resolveIncident"
  ELSE "createIncident"

\* Mutant of AfterFind: a down result always creates an incident.
AfterFind_AlwaysCreate(results, ongoing) ==
  IF ~results.isUp THEN "createIncident"
  ELSE IF ongoing # << >> THEN "resolveIncident" ELSE "return"

\* Mutant of AfterFind: the Resolved message is sent without the resolve write.
AfterFind_SkipsResolveWrite(results, ongoing) ==
  IF ~results.isUp
  THEN IF ongoing # << >> THEN "updateIncident" ELSE "createIncident"
  ELSE IF ongoing # << >> THEN "notifyResolved" ELSE "return"

\* if (!results.isUp) { if (ongoingIncident) update else create+notify }
\* else { if (ongoingIncident) resolve+notify }
AfterFind(results, ongoing) ==
  IF ~results.isUp
  THEN IF ongoing # << >> THEN "updateIncident" ELSE "createIncident"
  ELSE IF ongoing # << >> THEN "resolveIncident" ELSE "return"

\* const [ongoingIncident] = await db.select().from(incident).where(...)
\* (no ORDER BY: any of the matching rows may come first)
FindIncident(j) ==
  /\ pc[j] = "findIncident"
  /\ \/ Throw(j, "findIncident")
     \/ \E ongoing \in
            IF SelectOpenIncidents(incidents, jobData[j]) = {}
            THEN { << >> }
            ELSE { << incidents[i] >> :
                     i \in SelectOpenIncidents(incidents, jobData[j]) } :
          /\ local' = [local EXCEPT ![j].ongoingIncident = ongoing,
                                    ![j].tRead = clock]
          /\ pc' = [pc EXCEPT ![j] = AfterFind(local[j].results[1], ongoing)]
          /\ UNCHANGED << clock, monitorStatus, checkResults, incidents,
                          notifications, jobData, runs >>

\* Mutant of UpdateIncident: a run that finds the incident still open sends
\* the NewIncident message for it again.
UpdateIncident_Renotifies(j) ==
  /\ pc[j] = "updateIncident"
  /\ \/ Throw(j, "updateIncident")
     \/ \E now \in local[j].tRead..clock :
          /\ incidents' =
               [ i \in 1..Len(incidents) |->
                   IF incidents[i].id = local[j].ongoingIncident[1].id
                   THEN OngoingUpdate(incidents[i], local[j].ongoingIncident[1],
                                      now, local[j].results[1])
                   ELSE incidents[i] ]
          /\ local' = [local EXCEPT ![j].tRead = Null,
                                    ![j].newIncident = local[j].ongoingIncident]
          /\ pc' = [pc EXCEPT ![j] = "notifyNew"]
          /\ UNCHANGED << clock, monitorStatus, checkResults, notifications,
                          jobData, runs >>

\* await db.update(incident).set({durationMs: Date.now() - startAt, errorMessage})
\*          .where(eq(incident.id, ongoingIncident.id))
UpdateIncident(j) ==
  /\ pc[j] = "updateIncident"
  /\ \/ Throw(j, "updateIncident")
     \/ \E now \in local[j].tRead..clock :
          /\ incidents' =
               [ i \in 1..Len(incidents) |->
                   IF incidents[i].id = local[j].ongoingIncident[1].id
                   THEN OngoingUpdate(incidents[i], local[j].ongoingIncident[1],
                                      now, local[j].results[1])
                   ELSE incidents[i] ]
          /\ local' = [local EXCEPT ![j].tRead = Null]
          /\ pc' = [pc EXCEPT ![j] = "return"]
          /\ UNCHANGED << clock, monitorStatus, checkResults, notifications,
                          jobData, runs >>

\* const [newIncident] = await db.insert(incident).values({...}).returning()
CreateIncident(j) ==
  /\ pc[j] = "createIncident"
  /\ \/ Throw(j, "createIncident")
     \/ \E now \in local[j].tRead..clock :
          LET row == NewIncidentValues(Len(incidents) + 1,
                                       local[j].existingMonitor[1], jobData[j],
                                       now, local[j].results[1])
          IN /\ incidents' = Append(incidents, row)
             /\ local' = [local EXCEPT ![j].newIncident = << row >>,
                                       ![j].tRead = Null]
             /\ pc' = [pc EXCEPT ![j] = "notifyNew"]
             /\ UNCHANGED << clock, monitorStatus, checkResults,
                             notifications, jobData, runs >>

\* const endTime = new Date(); const totalDuration = endTime - startAt;
\* await db.update(incident).set({endAt, durationMs}).where(eq(incident.id, ...))
ResolveIncident(j) ==
  /\ pc[j] = "resolveIncident"
  /\ \E endTime \in local[j].tRead..clock :
       \/ Throw(j, "resolveIncident")
       \/ /\ incidents' =
               [ i \in 1..Len(incidents) |->
                   IF incidents[i].id = local[j].ongoingIncident[1].id
                   THEN ResolveUpdate(incidents[i], local[j].ongoingIncident[1],
                                      endTime)
                   ELSE incidents[i] ]
          /\ local' = [local EXCEPT ![j].totalDuration =
                                      endTime - local[j].ongoingIncident[1].startAt,
                                    ![j].tRead = Null]
          /\ pc' = [pc EXCEPT ![j] = "notifyResolved"]
          /\ UNCHANGED << clock, monitorStatus, checkResults, notifications,
                          jobData, runs >>

\* try { await NotificationService.notifyUser({...}) } catch { console.error }
NotifyPayload(j, isNewIncident, isResolved, incidentId) ==
  LET notification == generateNotificationMessages(isNewIncident, isResolved)
  IN [ userId |-> local[j].existingMonitor[1].userId,
       title |-> notification.title,
       priority |-> notification.priority,
       monitorId |-> jobData[j],
       incidentId |-> incidentId ]

NotifyUser(j, payload, outcome) ==
  /\ notifications' = Append(notifications, payload)
  /\ local' = [local EXCEPT ![j].notifyOutcome = outcome]
  /\ pc' = [pc EXCEPT ![j] = AfterNotify(outcome)]
  /\ UNCHANGED << clock, monitorStatus, checkResults, incidents,
                  jobData, runs >>

NotifyNewIncident(j) ==
  /\ pc[j] = "notifyNew"
  /\ \E outcome \in NotifyOutcomes :
       NotifyUser(j, NotifyPayload(j, TRUE, FALSE, local[j].newIncident[1].id),
                  outcome)

NotifyResolved(j) ==
  /\ pc[j] = "notifyResolved"
  /\ \E outcome \in NotifyOutcomes :
       NotifyUser(j, NotifyPayload(j, FALSE, TRUE, local[j].ongoingIncident[1].id),
                  outcome)

\* console.log(`Monitor check completed ...`); the handler returns and the
\* queue marks the job completed.
Return(j) ==
  /\ pc[j] = "return"
  /\ pc' = [pc EXCEPT ![j] = "completed"]
  /\ local' = [local EXCEPT ![j] = Blank]
  /\ UNCHANGED << clock, monitorStatus, checkResults, incidents, notifications,
                  jobData, runs >>

\* catch (error) { console.error(...); throw error }: the queue marks the
\* job failed; nothing the run wrote is undone.
Rethrow(j) ==
  /\ pc[j] = "catch"
  /\ pc' = [pc EXCEPT ![j] = AfterCatch(local[j].failedAt)]
  /\ local' = [local EXCEPT ![j] = Blank]
  /\ UNCHANGED << clock, monitorStatus, checkResults, incidents, notifications,
                  jobData, runs >>

(* --------------------------- specifications ---------------------------- *)
Handler(j) ==
  \/ LoadMonitor(j)
  \/ Probe(j)
  \/ SetMonitorStatus(j)
  \/ InsertCheckResult(j)
  \/ FindIncident(j)
  \/ UpdateIncident(j)
  \/ CreateIncident(j)
  \/ ResolveIncident(j)
  \/ NotifyNewIncident(j)
  \/ NotifyResolved(j)
  \/ Return(j)
  \/ Rethrow(j)

\* The worker as built: up to Concurrency handler runs interleave freely.
Next ==
  \/ Tick /\ UNCHANGED << dvars, hvars >>
  \/ \E j \in Jobs : Start(j) /\ UNCHANGED << dvars, hvars >>
  \/ \E j \in Jobs : Retry(j) /\ UNCHANGED << dvars, hvars >>
  \/ \E j \in Jobs : Handler(j) /\ UNCHANGED << dvars, hvars >>

Spec == Init /\ [][Next]_vars

\* The worker behind a scheduler that keeps one check per monitor in flight.
SerialNext ==
  \/ Tick /\ UNCHANGED << dvars, hvars >>
  \/ \E j \in Jobs : SerialStart(j) /\ UNCHANGED << dvars, hvars >>
  \/ \E j \in Jobs : SerialRetry(j) /\ UNCHANGED << dvars, hvars >>
  \/ \E j \in Jobs : Handler(j) /\ UNCHANGED << dvars, hvars >>

SerialSpec == Init /\ [][SerialNext]_vars

(* ------------------- NotificationService.notifyUser -------------------- *)
\* The notification_channel tables a call may find: up to MaxChannels rows,
\* ids in insertion order, each row some user's channel of some type.
ChannelTables ==
  UNION { { [ i \in 1..n |-> [ id |-> i, userId |-> f[i].userId,
                                type |-> f[i].type ] ] :
              f \in [ 1..n -> [ userId : Users, type : ChannelTypes ] ] } :
          n \in 0..MaxChannels }

\* the worker at rest while one call of notifyUser is looked at
WorkerIdle ==
  /\ clock = 0
  /\ monitorStatus = [m \in MonitorIds |-> "unknown"]
  /\ checkResults = EmptyBag
  /\ incidents = << >>
  /\ notifications = << >>
  /\ pc = [j \in Jobs |-> "idle"]
  /\ jobData = [j \in Jobs |-> ""]
  /\ runs = 0
  /\ local = [j \in Jobs |-> Blank]

DispatchInit ==
  /\ WorkerIdle
  /\ ProberIdle
  /\ mailEnv \in [ transporter : BOOLEAN, smtpFrom : BOOLEAN ]
  /\ channelTable \in ChannelTables
  /\ dpc = "idle"
  /\ dpayload = << >>
  /\ channels = << >>
  /\ attempts = << >>
  /\ promises = << >>
  /\ dreturn = NoReturn

\* where the call stands once it has given `ret` to its caller
AfterDispatch(ret) == IF ret.kind = "raise" THEN "raised" ELSE "returned"

\* static async notifyUser(payload): if (!userId || !title || !message) throw
NotifyUserCall ==
  /\ dpc = "idle"
  /\ \E p \in Payloads :
       /\ dpayload' = p
       /\ IF p.userId = "" \/ p.title = "" \/ p.message = ""
          THEN /\ dreturn' = [ kind |-> "raise", value |-> << >>,
                               error |-> "Missing required notification parameters" ]
               /\ dpc' = AfterDispatch(dreturn')
          ELSE /\ dpc' = "select"
               /\ dreturn' = dreturn
  /\ UNCHANGED << mailEnv, channelTable, channels, attempts, promises >>

\* const channels = await db.select().from(notificationChannel).where(...)
\* if (channels.length === 0) return results;  const promises = channels.map(...)
\* (a rejected select lands in catch (error) { ...; throw error })
SelectChannels ==
  /\ dpc = "select"
  /\ \/ /\ dreturn' = [ kind |-> "raise", value |-> << >>,
                        error |-> "select rejected" ]
        /\ dpc' = AfterDispatch(dreturn')
        /\ UNCHANGED << channels, attempts, promises >>
     \/ LET rows == SelectSeq(channelTable,
                              LAMBDA r : r.userId = dpayload.userId)
        IN IF Len(rows) = 0
           THEN /\ dreturn' = [ kind |-> "value", value |-> << >>,
                                error |-> Absent ]
                /\ dpc' = AfterDispatch(dreturn')
                /\ UNCHANGED << channels, attempts, promises >>
           ELSE /\ channels' = rows
                /\ attempts' = [ i \in 1..Len(rows) |-> << >> ]
                /\ promises' = [ i \in 1..Len(rows) |-> << >> ]
                /\ dpc' = "deliver"
                /\ dreturn' = dreturn
  /\ UNCHANGED << mailEnv, channelTable, dpayload >>

\* one channel's async (channel) => { try { await send } catch { ... } }
\* runs to its end, in any order with the others
SettleChannel(i) ==
  /\ dpc = "deliver"
  /\ promises[i] = << >>
  /\ \E o \in TransportOutcomes(channels[i].type) :
       /\ attempts' = [attempts EXCEPT ![i] = << o >>]
       /\ promises' = [promises EXCEPT ![i] =
            << [ status |-> "fulfilled",
                 value |-> ChannelResult(channels[i],
                                         Deliver(channels[i], mailEnv, o)) ] >>]
  /\ UNCHANGED << mailEnv, channelTable, dpc, dpayload, channels, dreturn >>

\* Mutant of JoinChannels: the call returns as soon as one delivery has
\* failed, whatever the others are doing.
JoinChannels_OnFirstFailure ==
  /\ dpc = "deliver"
  /\ \/ \A i \in 1..Len(channels) : promises[i] # << >>
     \/ \E i \in 1..Len(channels) :
          promises[i] # << >> /\ ~promises[i][1].value.success
  /\ dreturn' =
       [ kind |-> "value",
         value |-> [ i \in 1..Len(channels) |->
                       IF promises[i] # << >>
                       THEN Settlement(promises[i][1], channels[i])
                       ELSE ChannelResult(channels[i], "cancelled") ],
         error |-> Absent ]
  /\ dpc' = AfterDispatch(dreturn')
  /\ UNCHANGED << mailEnv, channelTable, dpayload, channels, attempts, promises >>

\* await Promise.allSettled(promises) is over; the results are built and
\* returned
JoinChannels ==
  /\ dpc = "deliver"
  /\ \A i \in 1..Len(channels) : promises[i] # << >>
  /\ dreturn' = notifyUserReturn(promises, channels)
  /\ dpc' = AfterDispatch(dreturn')
  /\ UNCHANGED << mailEnv, channelTable, dpayload, channels, attempts, promises >>

DispatchNext ==
  \/ NotifyUserCall /\ UNCHANGED << wvars, hvars >>
  \/ SelectChannels /\ UNCHANGED << wvars, hvars >>
  \/ \E i \in 1..MaxChannels :
       i <= Len(channels) /\ SettleChannel(i) /\ UNCHANGED << wvars, hvars >>
  \/ JoinChannels /\ UNCHANGED << wvars, hvars >>

\* One call of NotificationService.notifyUser, for every table of channels,
\* mail configuration, argument and transport behaviour.
DispatchSpec == DispatchInit /\ [][DispatchNext]_vars

(* ------------------- performHealthCheck, on its own -------------------- *)
\* the expectedStatus values of the monitors probed
ExpectedStatuses == {ExpectedStatus, 204, 500}

\* Mutant of AfterRequest: only AxiosErrors are caught, anything else that
\* axios.request throws escapes the function.
AfterRequest_OnlyAxios(o) ==
  IF o.kind \in {"response", "axios"} THEN "returned" ELSE "raised"

\* try { ... await axios.request(...) ... } catch (error) { ... }  return {...}
\* whatever the request did, the function reaches its return statement
AfterRequest(o) == "returned"

ProbeInit ==
  /\ WorkerIdle
  /\ DispatcherIdle
  /\ hpc = "idle"
  /\ hmonitor \in { [ expectedStatus |-> e ] : e \in ExpectedStatuses }
  /\ hstart = Null
  /\ hnet = << >>
  /\ hresult = NoReturn

\* const start = Date.now(); ... await axios.request({...})
ProbeRequest ==
  /\ hpc = "idle"
  /\ hstart' = clock
  /\ hpc' = "requested"
  /\ UNCHANGED << hmonitor, hnet, hresult >>

\* the request settles; responseMs = Date.now() - start; classification;
\* return {isUp, responseMs, statusCode, errorMessage, errorType}
ProbeSettle ==
  /\ hpc = "requested"
  /\ \E o \in NetOutcomes :
       /\ hnet' = << o >>
       /\ hpc' = AfterRequest(o)
       /\ hresult' =
            IF AfterRequest(o) = "returned"
            THEN [ kind |-> "value",
                   value |-> << performHealthCheck(hmonitor, o, clock - hstart) >>,
                   error |-> Absent ]
            ELSE [ kind |-> "raise", value |-> << >>, error |-> o.message ]
  /\ UNCHANGED << hmonitor, hstart >>

ProbeNext ==
  \/ Tick /\ UNCHANGED << dvars, hvars >>
  \/ ProbeRequest /\ UNCHANGED << wvars, dvars >>
  \/ ProbeSettle /\ UNCHANGED << wvars, dvars >>

\* One call of performHealthCheck, for every expected status, every outcome
\* of the request and every duration the clock allows.
ProbeSpec == ProbeInit /\ [][ProbeNext]_vars

(* ------------------------- notions the claims use ---------------------- *)
OpenIncidentIds(m) ==
  { i \in DOMAIN incidents :
      incidents[i].monitorId = m /\ incidents[i].endAt = Null }

StepOf(j) == pc'[j] # pc[j]
Down(j) == local[j].results # << >> /\ ~local[j].results[1].isUp
Up(j) == local[j].results # << >> /\ local[j].results[1].isUp
SawOpen(j) == local[j].ongoingIncident # << >>
RowOf(tbl, id) == CHOOSE r \in { tbl[i] : i \in DOMAIN tbl } : r.id = id

TypeOK ==
  /\ clock \in 0..MaxClock
  /\ monitorStatus \in [MonitorIds -> MonitorStatuses]
  /\ runs \in 0..MaxRuns

(* C1: under a scheduler that never overlaps two checks of one monitor,    *)
(* every monitor has at most one incident with endAt = null, in every      *)
(* reachable state (whatever the probes return, whichever persistence      *)
(* calls fail, however often jobs are retried).                            *)
C1_AtMostOneOpen ==
  \A m \in MonitorIds : Cardinality(OpenIncidentIds(m)) <= 1

\* a second incident was opened after the first one was resolved
C1_Witness ==
  \E m \in MonitorIds :
    /\ Cardinality(OpenIncidentIds(m)) = 1
    /\ Len(incidents) >= 2

(* C2: the worker does not serialize the check/create sequence: a run that *)
(* read 'no open incident' inserts its incident whatever the table holds   *)
(* by then, so the monitor's open incidents grow by one at every such      *)
(* insert; with two overlapping down runs this reaches two open incidents. *)
C2_CreateAlwaysInserts ==
  [][ \A j \in Jobs :
        (pc[j] = "createIncident" /\ pc'[j] = "notifyNew") =>
          /\ ~SawOpen(j)
          /\ OpenIncidentIds(jobData[j])' =
               OpenIncidentIds(jobData[j]) \cup { Len(incidents) + 1 } ]_vars

\* two runs in flight, each having inserted an incident that is still open
C2_Witness ==
  \E j, k \in Jobs :
    /\ j # k
    /\ jobData[j] = jobData[k]
    /\ pc[j] \in {"notifyNew", "return"} /\ pc[k] \in {"notifyNew", "return"}
    /\ Down(j) /\ Down(k) /\ ~SawOpen(j) /\ ~SawOpen(k)
    /\ local[j].newIncident # << >> /\ local[k].newIncident # << >>
    /\ local[j].newIncident[1].id # local[k].newIncident[1].id
    /\ { local[j].newIncident[1].id, local[k].newIncident[1].id }
         \subseteq OpenIncidentIds(jobData[j])

\* the row a run inserts for a new incident, as the amended C3 has it
C3_Created(j, r) ==
  /\ r.id = Len(incidents) + 1
  /\ r.monitorId = jobData[j]
  /\ r.userId = local[j].existingMonitor[1].userId
  /\ r.startAt \in local[j].tRead..clock
  /\ r.endAt = Null
  /\ r.durationMs = 0
  /\ r.status = "open"
  /\ r.errorMessage =
       IF local[j].results[1].errorMessage \notin {Absent, ""}
       THEN local[j].results[1].errorMessage
       ELSE "HTTP Unknown"

(* C3 as the spec states it: a run with a down result that read no open    *)
(* incident inserts one incident with startAt = now, endAt = null,         *)
(* durationMs = 0, status = open and errorMessage = the probe's error      *)
(* message, and then dispatches one NewIncident event with its id.         *)
C3_Original ==
  \A j \in Jobs :
    pc[j] = "notifyNew" =>
      /\ local[j].newIncident[1].endAt = Null
      /\ local[j].newIncident[1].durationMs = 0
      /\ local[j].newIncident[1].status = "open"
      /\ local[j].newIncident[1].errorMessage = local[j].results[1].errorMessage

(* C3, amended: a run with a down result that read no open incident        *)
(* inserts exactly one incident row (startAt = the clock reading of the    *)
(* insert, endAt = null, durationMs = 0, status = open, errorMessage = the *)
(* probe's error message, or "HTTP Unknown" when the probe gave an empty   *)
(* one), and then calls the dispatcher exactly once, with the NewIncident  *)
(* message and the id of that row.                                         *)
C3_CreateThenNotify ==
  [][ \A j \in Jobs :
        /\ (pc[j] = "findIncident" /\ StepOf(j) /\ pc'[j] # "catch"
              /\ Down(j) /\ ~SawOpen(j)') => pc'[j] = "createIncident"
        /\ (pc[j] = "createIncident" /\ pc'[j] # "catch" /\ StepOf(j)) =>
              /\ Down(j) /\ ~SawOpen(j)
              /\ pc'[j] = "notifyNew"
              /\ Len(incidents') = Len(incidents) + 1
              /\ SubSeq(incidents', 1, Len(incidents)) = incidents
              /\ C3_Created(j, incidents'[Len(incidents')])
              /\ local'[j].newIncident = << incidents'[Len(incidents')] >>
              /\ notifications' = notifications
        /\ (pc[j] = "notifyNew" /\ StepOf(j)) =>
              /\ pc'[j] = "return"
              /\ local[j].notifyOutcome = "none"
              /\ incidents' = incidents
              /\ notifications' = Append(notifications,
                    [ userId |-> local[j].existingMonitor[1].userId,
                      title |-> "Service Down", priority |-> "critical",
                      monitorId |-> jobData[j],
                      incidentId |-> local[j].newIncident[1].id ])
        /\ (pc[j] = "return" /\ local[j].newIncident # << >> /\ StepOf(j)) =>
              /\ pc'[j] = "completed"
              /\ incidents' = incidents /\ notifications' = notifications ]_vars

\* the row was inserted with the fallback text and its event dispatched
C3_Witness ==
  \E j \in Jobs :
    /\ pc[j] = "return"
    /\ Down(j) /\ ~SawOpen(j)
    /\ local[j].newIncident # << >>
    /\ local[j].results[1].errorMessage = ""
    /\ local[j].newIncident[1].errorMessage = "HTTP Unknown"
    /\ \E n \in DOMAIN notifications :
         /\ notifications[n].incidentId = local[j].newIncident[1].id
         /\ notifications[n].title = "Service Down"

(* C4: a run with an up result that read an open incident sets that        *)
(* incident's endAt to a time (not null) and its durationMs to exactly     *)
(* endAt - startAt, and then calls the dispatcher exactly once, with the   *)
(* Resolved message and that incident's id.                                *)
C4_ResolveThenNotify ==
  [][ \A j \in Jobs :
        /\ (pc[j] = "findIncident" /\ StepOf(j) /\ pc'[j] # "catch"
              /\ Up(j) /\ SawOpen(j)') => pc'[j] = "resolveIncident"
        /\ (pc[j] = "resolveIncident" /\ pc'[j] # "catch" /\ StepOf(j)) =>
              /\ Up(j) /\ SawOpen(j)
              /\ pc'[j] = "notifyResolved"
              /\ Len(incidents') = Len(incidents)
              /\ \A i \in DOMAIN incidents :
                    IF incidents[i].id = local[j].ongoingIncident[1].id
                    THEN /\ incidents'[i].endAt \in local[j].tRead..clock
                         /\ incidents'[i].endAt # Null
                         /\ incidents'[i].startAt = incidents[i].startAt
                         /\ incidents'[i].durationMs =
                              incidents'[i].endAt - incidents'[i].startAt
                    ELSE incidents'[i] = incidents[i]
              /\ notifications' = notifications
        /\ (pc[j] = "notifyResolved" /\ StepOf(j)) =>
              /\ pc'[j] = "return"
              /\ local[j].notifyOutcome = "none"
              /\ incidents' = incidents
              /\ notifications' = Append(notifications,
                    [ userId |-> local[j].existingMonitor[1].userId,
                      title |-> "Service Restored", priority |-> "medium",
                      monitorId |-> jobData[j],
                      incidentId |-> local[j].ongoingIncident[1].id ])
        /\ (pc[j] = "return" /\ local[j].totalDuration # Null /\ StepOf(j)) =>
              /\ pc'[j] = "completed"
              /\ incidents' = incidents /\ notifications' = notifications ]_vars

\* an incident that lasted was resolved and its event dispatched
C4_Witness ==
  \E j \in Jobs :
    /\ pc[j] = "return"
    /\ Up(j) /\ SawOpen(j)
    /\ local[j].totalDuration > 0
    /\ RowOf(incidents, local[j].ongoingIncident[1].id).endAt # Null
    /\ RowOf(incidents, local[j].ongoingIncident[1].id).durationMs > 0
    /\ \E n \in DOMAIN notifications :
         /\ notifications[n].incidentId = local[j].ongoingIncident[1].id
         /\ notifications[n].title = "Service Restored"

(* C5: in every reachable state an incident has endAt = null if and only   *)
(* if its status is open (so resolving sets status = resolved with endAt). *)
C5_EndAtNullIffOpen ==
  \A i \in DOMAIN incidents :
    (incidents[i].endAt = Null) <=> (incidents[i].status = "open")

\* what a step of a still-down run leaves alone
C6_OngoingStep(j) ==
  /\ Len(incidents') = Len(incidents)
  /\ notifications' = notifications
  /\ OpenIncidentIds(jobData[j]) = { local[j].ongoingIncident[1].id }
  /\ OpenIncidentIds(jobData[j])' = OpenIncidentIds(jobData[j])
  /\ \A i \in DOMAIN incidents :
        IF incidents[i].id = local[j].ongoingIncident[1].id
        THEN incidents'[i].durationMs >= incidents[i].durationMs
        ELSE incidents'[i] = incidents[i]

(* C6: with checks of a monitor run one at a time, a run with a down       *)
(* result on a monitor that has an open incident leaves the number of      *)
(* incident rows and the monitor's one open incident as they are, never    *)
(* lowers that incident's durationMs, and never calls the dispatcher; so   *)
(* do N such runs in a row.                                                *)
C6_OngoingIsSilent ==
  [][ \A j \in Jobs :
        /\ (pc[j] = "findIncident" /\ StepOf(j) /\ pc'[j] # "catch"
              /\ Down(j) /\ SawOpen(j)') =>
              /\ pc'[j] = "updateIncident"
              /\ incidents' = incidents /\ notifications' = notifications
        /\ (pc[j] = "updateIncident" /\ StepOf(j)) =>
              /\ Down(j) /\ SawOpen(j)
              /\ pc'[j] \in {"return", "catch"}
              /\ C6_OngoingStep(j)
        /\ (pc[j] = "return" /\ Down(j) /\ SawOpen(j) /\ StepOf(j)) =>
              /\ pc'[j] = "completed"
              /\ local[j].notifyOutcome = "none"
              /\ local[j].newIncident = << >>
              /\ incidents' = incidents /\ notifications' = notifications ]_vars

\* the second down run in a row on the open incident: the first one had
\* already raised durationMs above 0, and still there is one row, one event
C6_Witness ==
  \E j \in Jobs :
    /\ pc[j] = "return"
    /\ Down(j) /\ SawOpen(j)
    /\ local[j].ongoingIncident[1].durationMs > 0
    /\ Len(incidents) = 1
    /\ incidents[1].durationMs >= local[j].ongoingIncident[1].durationMs
    /\ Len(notifications) = 1

(* C7: a run with an up result that reads no open incident changes no      *)
(* incident row and calls no dispatcher, and has before that written the   *)
(* monitor status (up) and added exactly one CheckResult row.              *)
C7_UpWithoutIncident ==
  [][ \A j \in Jobs :
        /\ (pc[j] = "setStatus" /\ StepOf(j) /\ pc'[j] # "catch" /\ Up(j)) =>
              /\ monitorStatus' = [monitorStatus EXCEPT ![jobData[j]] = "up"]
              /\ checkResults' = checkResults
              /\ incidents' = incidents /\ notifications' = notifications
        /\ (pc[j] = "insertCheckResult" /\ StepOf(j) /\ pc'[j] # "catch"
              /\ Up(j)) =>
              /\ checkResults' = checkResults (+) SetToBag({
                    [ monitorId |-> jobData[j], status |-> "up",
                      responseMs |-> local[j].results[1].responseMs ] })
              /\ monitorStatus' = monitorStatus
              /\ incidents' = incidents /\ notifications' = notifications
        /\ (pc[j] = "findIncident" /\ StepOf(j) /\ pc'[j] # "catch"
              /\ Up(j) /\ ~SawOpen(j)') =>
              /\ pc'[j] = "return"
              /\ incidents' = incidents /\ notifications' = notifications
        /\ (pc[j] = "return" /\ Up(j) /\ ~SawOpen(j) /\ StepOf(j)) =>
              /\ pc'[j] = "completed"
              /\ local[j].notifyOutcome = "none"
              /\ local[j].newIncident = << >>
              /\ local[j].totalDuration = Null
              /\ incidents' = incidents /\ notifications' = notifications
              /\ checkResults' = checkResults ]_vars

\* the run is about to return; an earlier incident is there, untouched
C7_Witness ==
  \E j \in Jobs :
    /\ pc[j] = "return"
    /\ Up(j) /\ ~SawOpen(j)
    /\ Len(incidents) >= 1
    /\ monitorStatus[jobData[j]] = "up"
    /\ BagIn([ monitorId |-> jobData[j], status |-> "up",
               responseMs |-> local[j].results[1].responseMs ], checkResults)

\* at its last statement a run has called the dispatcher iff it created or
\* resolved an incident
C8_AtReturn ==
  \A j \in Jobs :
    pc[j] = "return" =>
      /\ (local[j].notifyOutcome # "none") <=>
           (local[j].newIncident # << >> \/ local[j].totalDuration # Null)
      /\ (Down(j) /\ SawOpen(j)) => local[j].notifyOutcome = "none"
      /\ (Up(j) /\ ~SawOpen(j)) => local[j].notifyOutcome = "none"

(* C8: a run calls the dispatcher if and only if it created an incident    *)
(* (with the NewIncident message) or resolved one (with the Resolved       *)
(* message); a run that updated an ongoing incident or had nothing to      *)
(* change never calls it, and no run calls it twice.                       *)
C8_NotifyIffCreatedOrResolved ==
  [][ /\ C8_AtReturn'
      /\ notifications' # notifications =>
           \E j \in Jobs :
             /\ StepOf(j)
             /\ local[j].notifyOutcome = "none"
             /\ local'[j].notifyOutcome # "none"
             /\ Len(notifications') = Len(notifications) + 1
             /\ SubSeq(notifications', 1, Len(notifications)) = notifications
             /\ \/ /\ local[j].newIncident # << >>
                   /\ notifications'[Len(notifications')].title = "Service Down"
                   /\ notifications'[Len(notifications')].incidentId =
                        local[j].newIncident[1].id
                \/ /\ local[j].totalDuration # Null
                   /\ notifications'[Len(notifications')].title = "Service Restored"
                   /\ notifications'[Len(notifications')].incidentId =
                        local[j].ongoingIncident[1].id
      /\ \A j \in Jobs :
           (StepOf(j) /\ local[j].notifyOutcome # "none") =>
             notifications' = notifications ]_vars

\* a run that only updated the ongoing incident returns without a call,
\* while the dispatcher has been called for that incident's creation
C8_Witness ==
  \E j \in Jobs :
    /\ pc[j] = "return"
    /\ Down(j) /\ SawOpen(j)
    /\ local[j].notifyOutcome = "none"
    /\ Len(notifications) = 1
    /\ notifications[1].title = "Service Down"

(* C9: no failure of the dispatcher (a channel's delivery failing, or the  *)
(* dispatcher raising) fails the run: the run goes on to return and the    *)
(* job completes, and the monitor status, the CheckResult rows and the     *)
(* incident rows stay as written.                                          *)
C9_NotifyFailureAbsorbed ==
  [][ \A j \in Jobs :
        /\ (pc[j] \in {"notifyNew", "notifyResolved"} /\ StepOf(j)) =>
              /\ pc'[j] = "return"
              /\ monitorStatus' = monitorStatus
              /\ checkResults' = checkResults
              /\ incidents' = incidents
        /\ (pc[j] = "return" /\ local[j].notifyOutcome # "none" /\ StepOf(j)) =>
              /\ pc'[j] = "completed"
              /\ monitorStatus' = monitorStatus
              /\ checkResults' = checkResults
              /\ incidents' = incidents ]_vars

\* the dispatcher raised, the run is about to return, its incident is there
C9_Witness ==
  \E j \in Jobs :
    /\ pc[j] = "return"
    /\ local[j].notifyOutcome = "raised"
    /\ local[j].newIncident # << >>
    /\ \E i \in DOMAIN incidents : incidents[i].id = local[j].newIncident[1].id

\* the persistence calls of a run, in their order; what a run that is in its
\* catch block has not done
PersistenceSteps ==
  << "loadMonitor", "setStatus", "insertCheckResult", "findIncident",
     "updateIncident", "createIncident", "resolveIncident" >>

StepIndex(step) == CHOOSE n \in DOMAIN PersistenceSteps : PersistenceSteps[n] = step

C10_AtCatch ==
  \A j \in Jobs :
    pc[j] = "catch" =>
      /\ local[j].failedAt \in { PersistenceSteps[n] : n \in DOMAIN PersistenceSteps }
      /\ local[j].notifyOutcome = "none"
      /\ local[j].newIncident = << >>
      /\ local[j].totalDuration = Null
      /\ StepIndex(local[j].failedAt) <= 1 => local[j].results = << >>
      /\ StepIndex(local[j].failedAt) <= 4 => ~SawOpen(j)

(* C10: when a persistence call of a run fails, the run makes no further   *)
(* step of the sequence (no later write, no dispatcher call) and the job   *)
(* ends failed.                                                            *)
C10_PersistenceFailureFailsJob ==
  [][ /\ C10_AtCatch'
      /\ \A j \in Jobs :
           /\ (StepOf(j) /\ pc'[j] = "catch") =>
                 /\ local'[j].failedAt = pc[j]
                 /\ monitorStatus' = monitorStatus
                 /\ checkResults' = checkResults
                 /\ incidents' = incidents
                 /\ notifications' = notifications
           /\ (StepOf(j) /\ pc[j] = "catch") =>
                 /\ pc'[j] = "failed"
                 /\ monitorStatus' = monitorStatus
                 /\ checkResults' = checkResults
                 /\ incidents' = incidents
                 /\ notifications' = notifications ]_vars

\* the insert of the incident failed after the status and CheckResult writes
C10_Witness ==
  \E j \in Jobs :
    /\ pc[j] = "catch"
    /\ local[j].failedAt = "createIncident"
    /\ monitorStatus[jobData[j]] = "down"
    /\ OpenIncidentIds(jobData[j]) = {}

\* a job whose monitor row is missing stands only where no probe was made
C11_MissingNeverProbes ==
  \A j \in Jobs :
    jobData[j] \notin MonitorIds =>
      /\ pc[j] \in {"idle", "loadMonitor", "catch", "completed", "failed"}
      /\ local[j].results = << >>
      /\ local[j].existingMonitor = << >>

(* C11: a run whose job names a monitor that has no row (the select        *)
(* answers with no row) completes at once: it makes no probe, writes no    *)
(* monitor status, CheckResult or incident, and calls no dispatcher.       *)
C11_MissingMonitorNoOp ==
  [][ /\ C11_MissingNeverProbes'
      /\ \A j \in Jobs :
           (pc[j] = "loadMonitor" /\ jobData[j] \notin MonitorIds
              /\ StepOf(j) /\ pc'[j] # "catch") =>
             /\ pc'[j] = "completed"
             /\ monitorStatus' = monitorStatus
             /\ checkResults' = checkResults
             /\ incidents' = incidents
             /\ notifications' = notifications ]_vars

\* a job for a missing monitor has completed while the tables hold the
\* rows another monitor's checks wrote
C11_Witness ==
  \E j \in Jobs :
    /\ pc[j] = "completed"
    /\ jobData[j] \notin MonitorIds
    /\ Len(incidents) = 1
    /\ BagCardinality(checkResults) = 1
    /\ Len(notifications) = 1

\* the ids of the channels configured for the user of the call
UserChannelIds ==
  { channelTable[i].id :
      i \in { n \in DOMAIN channelTable :
                channelTable[n].userId = dpayload.userId } }

(* C12: a call of notifyUser whose channel query succeeded returns a list  *)
(* with exactly one entry per channel of the user (K entries for K         *)
(* channels, in particular the empty list for K = 0), whichever of the     *)
(* deliveries failed.                                                      *)
C12_OneEntryPerChannel ==
  dpc = "returned" =>
    /\ dreturn.kind = "value"
    /\ Len(dreturn.value) = Cardinality(UserChannelIds)
    /\ \A c \in UserChannelIds :
         Cardinality({ n \in DOMAIN dreturn.value :
                         dreturn.value[n].channelId = c }) = 1

\* two channels, one delivery failed and one succeeded, two entries returned
C12_Witness ==
  /\ dpc = "returned"
  /\ Cardinality(UserChannelIds) = 2
  /\ Len(dreturn.value) = 2
  /\ \E a, b \in DOMAIN dreturn.value :
       dreturn.value[a].success /\ ~dreturn.value[b].success

\* channel i's own delivery failed: for an email channel the mail transport
\* is not configured or refused the mail; for the others the endpoint gave
\* no response in time or a status of 500 or more
C13_OwnDeliveryFailed(i) ==
  IF channels[i].type = "email"
  THEN ~mailEnv.transporter \/ ~mailEnv.smtpFrom
         \/ attempts[i][1].mail = "rejected"
  ELSE attempts[i][1].status = Null \/ attempts[i][1].status >= 500

(* C13: in a call of notifyUser the success flag recorded for a channel is *)
(* decided by that channel's own delivery alone: when a channel settles,   *)
(* its entry reports success iff its own delivery did not fail, the        *)
(* entries of the other channels stay as they are, and the list returned   *)
(* carries for every channel exactly that flag.                            *)
C13_OwnOutcomeOnly ==
  [][ /\ \A i \in 1..Len(channels) :
           (dpc = "deliver" /\ promises[i] = << >> /\ promises'[i] # << >>) =>
             /\ promises'[i][1].value.channelId = channels[i].id
             /\ promises'[i][1].value.success = ~C13_OwnDeliveryFailed(i)'
             /\ \A k \in 1..Len(channels) :
                  k # i => /\ promises'[k] = promises[k]
                           /\ attempts'[k] = attempts[k]
      /\ (dpc = "deliver" /\ dpc' # "deliver") =>
           /\ dpc' = "returned"
           /\ Len(dreturn'.value) = Len(channels)
           /\ \A i \in 1..Len(channels) :
                /\ dreturn'.value[i].channelId = channels[i].id
                /\ dreturn'.value[i].type = channels[i].type
                /\ dreturn'.value[i].success = ~C13_OwnDeliveryFailed(i) ]_vars

\* the mail transport is not configured: the email channel's entry reports
\* the failure, the other channel's entry reports success
C13_Witness ==
  /\ dpc = "returned"
  /\ ~mailEnv.transporter
  /\ Len(dreturn.value) = 2
  /\ \E a, b \in DOMAIN dreturn.value :
       /\ dreturn.value[a].type = "email" /\ ~dreturn.value[a].success
       /\ dreturn.value[a].error = "Email transporter not available"
       /\ dreturn.value[b].type # "email" /\ dreturn.value[b].success

\* a required parameter of the call is missing or empty
C14_ParameterMissing(p) == p.userId = "" \/ p.title = "" \/ p.message = ""

(* C14 as the spec states it: a call of notifyUser raises only when the    *)
(* query for the user's channels fails.                                    *)
C14_Original ==
  dpc = "raised" => dreturn.error = "select rejected"

(* C14, amended: a call of notifyUser raises only when a required          *)
(* parameter (userId, title, message) is missing or empty, or when the     *)
(* query for the user's channels fails; once the channels are read it      *)
(* returns the list of per-channel outcomes, whichever deliveries fail.    *)
C14_RaisesOnlyBeforeDelivery ==
  [][ /\ (dpc = "idle" /\ dpc' # "idle") =>
           /\ (dpc' = "raised") <=> C14_ParameterMissing(dpayload')
           /\ dpc' = "raised" =>
                /\ dreturn'.kind = "raise"
                /\ dreturn'.error = "Missing required notification parameters"
      /\ (dpc = "select" /\ dpc' = "raised") =>
           /\ ~C14_ParameterMissing(dpayload)
           /\ dreturn'.kind = "raise"
           /\ dreturn'.error = "select rejected"
           /\ channels' = << >> /\ promises' = << >>
      /\ (dpc = "deliver" /\ dpc' # "deliver") =>
           /\ dpc' = "returned"
           /\ dreturn'.kind = "value"
           /\ Len(dreturn'.value) = Len(channels)
      /\ dpc \in {"returned", "raised"} => dpc' = dpc ]_vars

\* every delivery of the call failed, and the call returned the two entries
C14_Witness ==
  /\ dpc = "returned"
  /\ dreturn.kind = "value"
  /\ Len(dreturn.value) = 2
  /\ \A n \in DOMAIN dreturn.value : ~dreturn.value[n].success

\* the request got a response: axios.request resolved with one, or threw an
\* error that carries one
ResponseReceived(o) == o.status # Null

C16_ErrorTypeByPriority ==
  (hpc = "returned" /\ ~hresult.value[1].isUp) =>
    hresult.value[1].errorType =
      IF ResponseReceived(hnet[1]) THEN "status"
      ELSE IF hnet[1].kind = "axios"
              /\ hnet[1].code \in {"ECONNABORTED", "ETIMEDOUT"} THEN "timeout"
      ELSE IF hnet[1].kind = "axios"
              /\ hnet[1].code \in {"ECONNREFUSED", "ENOTFOUND"} THEN "network"
      ELSE "unknown"

\* a request that timed out after some time was classified timeout
C16_Witness ==
  /\ hpc = "returned"
  /\ hnet[1].code = "ECONNABORTED"
  /\ ~hresult.value[1].isUp
  /\ hresult.value[1].errorType = "timeout"
  /\ hresult.value[1].responseMs > 0

(* C17: performHealthCheck never raises: whatever the request does (a      *)
(* response with any status, a timeout, a refused or unresolvable          *)
(* connection, anything else thrown) the call returns a classified result, *)
(* and it writes no table and calls no dispatcher.                         *)
C17_ProberNeverRaises ==
  [][ (hpc = "requested" /\ hpc' # hpc) =>
        /\ hpc' = "returned"
        /\ hresult'.kind = "value"
        /\ hresult'.value[1].isUp \in BOOLEAN
        /\ hresult'.value[1].errorType \in {"timeout", "network", "status", "unknown"}
        /\ hresult'.value[1].responseMs = clock - hstart
        /\ ~hresult'.value[1].isUp => hresult'.value[1].errorMessage # Absent
        /\ monitorStatus' = monitorStatus
        /\ checkResults' = checkResults
        /\ incidents' = incidents
        /\ notifications' = notifications
        /\ dpc' = dpc ]_vars

\* the request threw something that is not an Error, and the call returned
C17_Witness ==
  /\ hpc = "returned"
  /\ hnet[1].kind = "thrown"
  /\ hresult.kind = "value"
  /\ ~hresult.value[1].isUp
  /\ hresult.value[1].errorMessage = "Unknown error occurred"

(* C18: every executed probe results in exactly one new CheckResult row    *)
(* for the monitor (status up iff isUp, responseMs the probe's), whether   *)
(* or not an incident is open, and no step changes or removes a row that   *)
(* is there.                                                               *)
C18_OneRowPerProbe ==
  [][ /\ \A j \in Jobs :
           (pc[j] = "insertCheckResult" /\ StepOf(j)) =>
             checkResults' = checkResults (+) SetToBag({
               [ monitorId |-> jobData[j],
                 status |-> IF local[j].results[1].isUp THEN "up" ELSE "down",
                 responseMs |-> local[j].results[1].responseMs ] })
      /\ checkResults \sqsubseteq checkResults' ]_vars

(* C19: after its probe a run overwrites the monitor's status with up if   *)
(* the probe's isUp is true and with down otherwise, whatever the status   *)
(* was before (up, down, paused or unknown); the status of a monitor       *)
(* changes at no other step, and no other monitor's status changes.        *)
C19_StatusOverwritten ==
  [][ /\ \A j \in Jobs :
           (pc[j] = "setStatus" /\ StepOf(j) /\ pc'[j] # "catch") =>
             /\ pc'[j] = "insertCheckResult"
             /\ monitorStatus'[jobData[j]] =
                  IF local[j].results[1].isUp THEN "up" ELSE "down"
             /\ \A m \in MonitorIds :
                  m # jobData[j] => monitorStatus'[m] = monitorStatus[m]
      /\ monitorStatus' # monitorStatus =>
           \E j \in Jobs : pc[j] = "setStatus" /\ pc'[j] = "insertCheckResult" ]_vars

\* the status written by an earlier down run (its incident is still open)
\* has been overwritten with up
C19_Witness ==
  \E j \in Jobs :
    /\ pc[j] = "insertCheckResult"
    /\ Up(j)
    /\ monitorStatus[jobData[j]] = "up"
    /\ OpenIncidentIds(jobData[j]) # {}

(* C20: once an incident is resolved (endAt not null) its durationMs       *)
(* equals endAt - startAt in every later state, also when runs for the     *)
(* same monitor overlap, and no later step changes the durationMs, endAt   *)
(* or errorMessage of a resolved incident.                                 *)
C20_ResolvedIsFrozen ==
  [][ /\ \A i \in DOMAIN incidents :
           incidents[i].endAt # Null =>
             /\ incidents[i].durationMs = incidents[i].endAt - incidents[i].startAt
             /\ incidents'[i].durationMs = incidents[i].durationMs
             /\ incidents'[i].endAt = incidents[i].endAt
             /\ incidents'[i].errorMessage = incidents[i].errorMessage ]_vars

\* the steps a run may take next, by the step it stands at
C21_Successors(step) ==
  CASE step = "loadMonitor"       -> {"probe", "completed", "catch"}
    [] step = "probe"             -> {"setStatus"}
    [] step = "setStatus"         -> {"insertCheckResult", "catch"}
    [] step = "insertCheckResult" -> {"findIncident", "catch"}
    [] step = "findIncident"      -> {"updateIncident", "createIncident",
                                      "resolveIncident", "return", "catch"}
    [] step = "updateIncident"    -> {"return", "catch"}
    [] step = "createIncident"    -> {"notifyNew", "catch"}
    [] step = "resolveIncident"   -> {"notifyResolved", "catch"}
    [] step = "notifyNew"         -> {"return"}
    [] step = "notifyResolved"    -> {"return"}
    [] step = "return"            -> {"completed"}
    [] step = "catch"             -> {"failed"}
    [] OTHER                      -> {"loadMonitor"}

\* what a run standing at a step has behind it
C21_DoneBefore ==
  \A j \in Jobs :
    /\ pc[j] = "probe" => local[j].existingMonitor # << >> /\ local[j].results = << >>
    /\ pc[j] \in {"setStatus", "insertCheckResult", "findIncident"} =>
         /\ local[j].results # << >>
         /\ local[j].ongoingIncident = << >> /\ local[j].newIncident = << >>
    /\ pc[j] \in {"insertCheckResult", "findIncident"} =>
         monitorStatus[jobData[j]] = CheckStatus(local[j].results[1])
    /\ pc[j] \in {"findIncident", "updateIncident", "createIncident",
                  "resolveIncident", "notifyNew", "notifyResolved"} =>
         BagIn([ monitorId |-> jobData[j],
                 status |-> CheckStatus(local[j].results[1]),
                 responseMs |-> local[j].results[1].responseMs ], checkResults)
    /\ pc[j] = "notifyNew" =>
         /\ local[j].newIncident # << >>
         /\ \E i \in DOMAIN incidents : incidents[i] = local[j].newIncident[1]
    /\ pc[j] = "notifyResolved" =>
         /\ local[j].totalDuration # Null
         /\ RowOf(incidents, local[j].ongoingIncident[1].id).endAt # Null

(* C21: within one run the steps follow one another in this order, one at  *)
(* a time: load monitor, probe, write monitor status, append CheckResult,  *)
(* look up the open incident, create / update / resolve the incident,      *)
(* dispatch the notification; the dispatcher is called only when the       *)
(* incident create or resolve write is in the table.                       *)
C21_StepsInOrder ==
  [][ /\ C21_DoneBefore'
      /\ \A j \in Jobs : StepOf(j) => pc'[j] \in C21_Successors(pc[j])
      /\ notifications' # notifications =>
           \E j \in Jobs :
             \/ /\ pc[j] = "notifyNew"
                /\ \E i \in DOMAIN incidents : incidents[i] = local[j].newIncident[1]
             \/ /\ pc[j] = "notifyResolved"
                /\ RowOf(incidents, local[j].ongoingIncident[1].id).endAt # Null ]_vars

\* a run is about to dispatch Resolved; the status, the CheckResult and the
\* incident's endAt are written
C21_Witness ==
  \E j \in Jobs :
    /\ pc[j] = "notifyResolved"
    /\ monitorStatus[jobData[j]] = "up"
    /\ BagIn([ monitorId |-> jobData[j], status |-> "up",
               responseMs |-> local[j].results[1].responseMs ], checkResults)
    /\ RowOf(incidents, local[j].ongoingIncident[1].id).endAt # Null
    /\ Len(notifications) = 1

(* C22: a call of notifyUser starts the deliveries to all of the user's    *)
(* channels at once (none has finished when the last one is started), and  *)
(* returns only when every one of them has settled, failed or not; the     *)
(* i-th entry of the list returned is the i-th channel's.                  *)
C22_JoinsAllDeliveries ==
  [][ /\ (dpc = "select" /\ dpc' = "deliver") =>
           /\ channels' = SelectSeq(channelTable,
                                    LAMBDA r : r.userId = dpayload.userId)
           /\ DOMAIN promises' = 1..Len(channels')
           /\ \A i \in 1..Len(channels') :
                promises'[i] = << >> /\ attempts'[i] = << >>
      /\ (dpc = "deliver" /\ dpc' = "deliver") =>
           /\ channels' = channels
           /\ dreturn' = dreturn
           /\ \A i \in 1..Len(channels) :
                promises[i] # << >> => promises'[i] = promises[i]
      /\ (dpc = "deliver" /\ dpc' # "deliver") =>
           /\ \A i \in 1..Len(channels) : promises[i] # << >>
           /\ Len(dreturn'.value) = Len(channels)
           /\ \A i \in 1..Len(channels) :
                /\ dreturn'.value[i] = promises[i][1].value
                /\ dreturn'.value[i].channelId = channels[i].id ]_vars

\* the second channel's delivery has failed while the first one is still
\* pending, and the call has not returned
C22_Witness ==
  /\ dpc = "deliver"
  /\ Len(channels) = 2
  /\ promises[1] = << >>
  /\ promises[2] # << >>
  /\ ~promises[2][1].value.success
  /\ dreturn = NoReturn

(* C23: for a slack, discord or webhook channel, a delivery that gets a    *)
(* response with a status of 500 or more, or no response, gives an entry   *)
(* with success = false and an error text; a response with a status in     *)
(* 400..499 gives an entry with success = true and no error.               *)
C23_WebhookStatusRule ==
  \A i \in 1..Len(channels) :
    (dpc \in {"deliver", "returned"} /\ promises[i] # << >>
       /\ channels[i].type \in {"slack", "discord", "webhook"}) =>
      LET entry == IF dpc = "returned" THEN dreturn.value[i]
                   ELSE promises[i][1].value
          status == attempts[i][1].status
      IN /\ (status = Null \/ status >= 500) =>
              /\ ~entry.success
              /\ entry.error \notin {Absent, ""}
         /\ (status # Null /\ status >= 400 /\ status <= 499) =>
              /\ entry.success
              /\ entry.error = Absent
         /\ (status # Null /\ status < 400) => entry.success

\* returned: a slack channel that answered 404 is reported delivered, a
\* webhook channel that answered 503 is reported failed
C23_Witness ==
  /\ dpc = "returned"
  /\ \E a, b \in 1..Len(channels) :
       /\ channels[a].type = "slack" /\ attempts[a][1].status = 404
       /\ dreturn.value[a].success
       /\ channels[b].type = "webhook" /\ attempts[b][1].status = 503
       /\ ~dreturn.value[b].success
       /\ dreturn.value[b].error = "Request failed with status code 503"

(* C24: whenever a run with an up result completes and no other run for    *)
(* its monitor is in flight, the monitor has no incident with endAt =      *)
(* null, whatever happened before (also after overlapping runs that left   *)
(* several open incidents).                                                *)
C24_UpLeavesNoneOpen ==
  [][ \A j \in Jobs :
        (pc[j] = "return" /\ pc'[j] = "completed" /\ Up(j)
           /\ InFlightFor(jobData[j]) = {j}) =>
          OpenIncidentIds(jobData[j])' = {} ]_vars

\* how often the dispatcher was called with this title for this incident
EventCount(title, id) ==
  Cardinality({ n \in DOMAIN notifications :
                  notifications[n].title = title
                  /\ notifications[n].incidentId = id })

\* no incident has had two NewIncident or two Resolved dispatches
C25_EventsAtMostOnce ==
  \A i \in DOMAIN incidents :
    /\ EventCount("Service Down", incidents[i].id) <= 1
    /\ EventCount("Service Restored", incidents[i].id) <= 1

(* C25: under any interleaving of runs for the same monitor, each incident *)
(* is the subject of at most one NewIncident and at most one Resolved      *)
(* dispatch, and its endAt is written at most once.                        *)
C25_OneEventPerIncident ==
  [][ /\ C25_EventsAtMostOnce'
      /\ \A i \in DOMAIN incidents :
           incidents'[i].endAt # incidents[i].endAt =>
             incidents[i].endAt = Null ]_vars

\* the monitor's status is down exactly when it has an open incident
StatusAgrees(m) == (monitorStatus[m] = "down") <=> (OpenIncidentIds(m) # {})

(* C26: with the runs of a monitor one at a time, whenever a run completes *)
(* (having found its monitor), the monitor's status is down if and only if *)
(* the monitor has an incident with endAt = null.  (The agreement can be   *)
(* broken while a run is in flight and after a run that failed between     *)
(* the status write and the incident write.)                               *)
C26_StatusAgreesAfterJob ==
  [][ \A j \in Jobs :
        (pc[j] = "return" /\ pc'[j] = "completed") =>
          /\ jobData[j] \in MonitorIds
          /\ StatusAgrees(jobData[j])' ]_vars

\* one run for the monitor has failed and one with a down result has
\* completed; nothing is in flight, the status is down and one incident is
\* open
C26_Witness ==
  \E j, k \in Jobs :
    /\ pc[j] = "completed" /\ pc[k] = "failed"
    /\ jobData[j] \in MonitorIds /\ jobData[k] = jobData[j]
    /\ runs = 2
    /\ monitorStatus[jobData[j]] = "down"
    /\ Cardinality(OpenIncidentIds(jobData[j])) = 1

\* what a run whose persistence step failed has left in the tables
C27_EarlierWritesStay ==
  \A j \in Jobs :
    pc[j] = "catch" =>
      /\ StepIndex(local[j].failedAt) >= 3 =>
           monitorStatus[jobData[j]] = CheckStatus(local[j].results[1])
      /\ StepIndex(local[j].failedAt) >= 4 =>
           BagIn([ monitorId |-> jobData[j],
                   status |-> CheckStatus(local[j].results[1]),
                   responseMs |-> local[j].results[1].responseMs ], checkResults)

(* C27: the writes of a run are not atomic: when a persistence step of a   *)
(* run fails, the writes of its earlier steps stay in the tables (the      *)
(* status when the CheckResult insert fails; the status and the            *)
(* CheckResult when the incident select, insert or update fails), neither  *)
(* the failure nor the rethrow undoes anything, and a retry starts again   *)
(* at loading the monitor, with no locals kept, and makes its own probe.   *)
C27_NoRollbackRetryFromStart ==
  [][ /\ C27_EarlierWritesStay'
      /\ \A j \in Jobs :
           /\ (StepOf(j) /\ (pc'[j] = "catch" \/ pc[j] = "catch"
                               \/ pc[j] = "failed")) =>
                 /\ monitorStatus' = monitorStatus
                 /\ checkResults' = checkResults
                 /\ incidents' = incidents
                 /\ notifications' = notifications
           /\ (StepOf(j) /\ pc[j] = "failed") =>
                 /\ pc'[j] = "loadMonitor"
                 /\ local'[j] = Blank
           /\ (StepOf(j) /\ pc'[j] = "setStatus") =>
                 /\ pc[j] = "probe"
                 /\ local[j].results = << >> ]_vars

\* the CheckResult insert of a run failed: its status write is in the
\* monitor table, no CheckResult row is
C27_Witness ==
  \E j \in Jobs :
    /\ pc[j] = "catch"
    /\ local[j].failedAt = "insertCheckResult"
    /\ monitorStatus[jobData[j]] = "up"
    /\ checkResults = EmptyBag

\* every incident has had its one NewIncident dispatch, unless the run that
\* inserted it is just about to make it; while the incident is open nothing
\* else has been dispatched about it
C28_OneAttempt ==
  \A i \in DOMAIN incidents :
    /\ EventCount("Service Down", incidents[i].id) =
         IF \E j \in Jobs : /\ pc[j] = "notifyNew"
                            /\ local[j].newIncident[1].id = incidents[i].id
         THEN 0 ELSE 1
    /\ incidents[i].endAt = Null =>
         Cardinality({ n \in DOMAIN notifications :
                         notifications[n].incidentId = incidents[i].id }) <= 1

(* C28: the NewIncident dispatch for an incident is attempted exactly      *)
(* once, by the run that inserted the incident, whatever the dispatcher    *)
(* does with it (delivers, fails on every channel, raises); the runs that  *)
(* follow with a down result only update the incident and dispatch         *)
(* nothing, so nothing more is sent about it while it is open.             *)
C28_NewIncidentNeverRetried ==
  [][ /\ C28_OneAttempt'
      /\ \A j \in Jobs :
           /\ (pc[j] = "notifyNew" /\ StepOf(j)) =>
                 /\ local'[j].notifyOutcome \in NotifyOutcomes
                 /\ pc'[j] = "return"
                 /\ EventCount("Service Down", local[j].newIncident[1].id)' = 1
           /\ (StepOf(j) /\ Down(j) /\ SawOpen(j)) =>
                 /\ notifications' = notifications
                 /\ pc'[j] \in {"updateIncident", "return", "catch",
                               "completed", "failed"} ]_vars

\* a later run with a down result has updated the open incident and is
\* about to return: the dispatch made when the incident was inserted is
\* still the only one
C28_Witness ==
  \E j \in Jobs :
    /\ pc[j] = "return"
    /\ Down(j) /\ SawOpen(j)
    /\ local[j].newIncident = << >>
    /\ RowOf(incidents, local[j].ongoingIncident[1].id).endAt = Null
    /\ EventCount("Service Down", local[j].ongoingIncident[1].id) = 1
    /\ EventCount("Service Restored", local[j].ongoingIncident[1].id) = 0
====
